---- MODULE Spec2Model ----
(***************************************************************************)
(* Model of fastAPI-trigget-bat/main.py: the /show-path and /upload-data   *)
(* handlers, the per-host snapshot file they share and the blob container. *)
(*                                                                         *)
(* Each worker is one server process running the handlers on its event     *)
(* loop: the handlers are `async def` without any await, so one worker     *)
(* runs one request at a time.  Two workers (two server processes started  *)
(* from the same directory) interleave at the granularity of their file    *)
(* system calls: open (which truncates), each write of a flushed block,    *)
(* the existence test and the read of the upload.                          *)
(*                                                                         *)
(* The script prints what it is written to print: its output (batOutput)   *)
(* is fixed with the script, empty or not.                                 *)
(*                                                                         *)
(* A file is a sequence of blocks.  json.dump emits the snapshot as a head *)
(* block (status, message, total_entries), one block per path entry and a  *)
(* tail block (raw_output).                                                *)
(***************************************************************************)
EXTENDS Integers, Sequences, FiniteSets, TLC

VARIABLES environ, batExists, batOutput, fs, blobs, pc, loc, log

vars == <<environ, batExists, batOutput, fs, blobs, pc, loc, log>>

\* ------------------------------------------------------------------ bounds
MaxRequests == 2
MaxPathLen == 4

Workers == {"w1", "w2"}
Alphabet == {"a", "b", " ", ";"}

\* ------------------------------------------------------- environment values
\* os.environ.get(name): a variable is either unset or holds a value.
Unset(v) == [set |-> FALSE, val |-> v]
Value(v) == [set |-> TRUE, val |-> v]

\* os.environ.get(name, default)
EnvGet(var, default) == IF var.set THEN var.val ELSE default

\* Python truthiness of os.environ.get(name): None and "" are falsy.
Falsy(var) == ~var.set \/ var.val = ""

\* ------------------------------------------------------------ path parsing
Whitespace == {" "}

RECURSIVE Split(_, _)
\* str.split(sep): the segments between separators; "" splits to [""].
Split(s, sep) ==
    IF \E i \in 1..Len(s) : s[i] = sep
    THEN LET i == CHOOSE k \in 1..Len(s) :
                    s[k] = sep /\ \A m \in 1..(k - 1) : s[m] # sep
         IN <<SubSeq(s, 1, i - 1)>> \o Split(SubSeq(s, i + 1, Len(s)), sep)
    ELSE <<s>>

RECURSIVE LStrip(_)
LStrip(s) == IF s # <<>> /\ Head(s) \in Whitespace THEN LStrip(Tail(s)) ELSE s

RECURSIVE RStrip(_)
RStrip(s) ==
    IF s # <<>> /\ s[Len(s)] \in Whitespace
    THEN RStrip(SubSeq(s, 1, Len(s) - 1))
    ELSE s

StripLeftOnly(s) == LStrip(s)

\* str.strip()
Strip(s) == RStrip(LStrip(s))

RECURSIVE StripNonEmpty(_)
\* [entry.strip() for entry in segs if entry.strip()]
StripNonEmpty(segs) ==
    IF segs = <<>> THEN <<>>
    ELSE IF Strip(Head(segs)) # <<>>
         THEN <<Strip(Head(segs))>> \o StripNonEmpty(Tail(segs))
         ELSE StripNonEmpty(Tail(segs))

\* path_entries of show_path, from the PATH variable of the process
PathEntries(pathVar) == StripNonEmpty(Split(EnvGet(pathVar, <<>>), ";"))

\* ------------------------------------------------------------ the snapshot
ResponseContentOffByOne(entries, stdout) ==
    [status |-> "success",
     message |-> "PATH environment variable retrieved successfully",
     total_entries |-> Len(entries) + 1,
     path_entries |-> entries,
     raw_output |-> IF stdout # <<>> THEN Value(stdout) ELSE Unset(<<>>)]

\* response_content of show_path
ResponseContent(entries, stdout) ==
    [status |-> "success",
     message |-> "PATH environment variable retrieved successfully",
     total_entries |-> Len(entries),
     path_entries |-> entries,
     raw_output |-> IF stdout # <<>> THEN Value(stdout) ELSE Unset(<<>>)]

NoContent ==
    [status |-> "", message |-> "", total_entries |-> 0,
     path_entries |-> <<>>, raw_output |-> Unset(<<>>)]

HeadBlock(c) == [k |-> "head", n |-> c.total_entries, s |-> <<>>]
EntryBlock(i, e) == [k |-> "entry", n |-> i, s |-> e]
TailBlock(c) ==
    [k |-> "tail", n |-> IF c.raw_output.set THEN 1 ELSE 0, s |-> c.raw_output.val]
HoleBlock == [k |-> "hole", n |-> 0, s |-> <<>>]

\* json.dump(response_content, f, ...): the blocks written, in order
Serialize(c) ==
    <<HeadBlock(c)>>
    \o [i \in 1..Len(c.path_entries) |-> EntryBlock(i, c.path_entries[i])]
    \o <<TailBlock(c)>>

\* f"{system_name}_data.json"
DataFileName(system_name) ==
    IF system_name = "unknown" THEN "unknown_data.json" ELSE "PC1_data.json"

\* system_name = os.environ.get('COMPUTERNAME', 'unknown') and the file name
JsonFileName(env) == DataFileName(EnvGet(env.COMPUTERNAME, "unknown"))

FileNames == {"unknown_data.json", "PC1_data.json"}

BatFilePath == "show-path-nointeractive.bat"

\* A write of one block at offset pos (0-based) of a file opened without
\* O_APPEND: it overwrites in place, and past the end it leaves a hole.
WriteAt(data, pos, block) ==
    [i \in 1..(IF Len(data) > pos + 1 THEN Len(data) ELSE pos + 1) |->
        IF i = pos + 1 THEN block
        ELSE IF i <= Len(data) THEN data[i] ELSE HoleBlock]

\* -------------------------------------------------------------- exceptions
HTTPException(code, detail) ==
    [type |-> "HTTPException", status_code |-> code, detail |-> detail]
OtherException(type, text) ==
    [type |-> type, status_code |-> 0, detail |-> <<text>>]

StatusText(code) ==
    IF code = 404 THEN "404" ELSE IF code = 500 THEN "500" ELSE "200"

\* str(e): Starlette's HTTPException prints "<status_code>: <detail>"
Str(e) ==
    IF e.type = "HTTPException"
    THEN <<StatusText(e.status_code), ": ">> \o e.detail
    ELSE e.detail

ShowPathExceptGeneric(e) ==
    [status |-> 500, detail |-> <<"Error executing batch file: ">> \o Str(e)]

\* the except clauses of show_path
ShowPathExcept(e) ==
    IF e.type = "TimeoutExpired"
    THEN [status |-> 500, detail |-> <<"Batch file execution timed out">>]
    ELSE [status |-> 500, detail |-> <<"Error executing batch file: ">> \o Str(e)]

\* the except clauses of upload_data
UploadExcept(e, json_filename) ==
    IF e.type = "AzureError"
    THEN [status |-> 500, detail |-> <<"Azure Storage error: ">> \o Str(e)]
    ELSE IF e.type = "FileNotFoundError"
    THEN [status |-> 404,
          detail |-> <<"JSON file ", json_filename,
                       " not found. Please call /show-path first to generate the file.">>]
    ELSE [status |-> 500,
          detail |-> <<"Error uploading to Azure Storage: ">> \o Str(e)]

NoException == [type |-> "none", status_code |-> 0, detail |-> <<>>]

ConnMissing ==
    HTTPException(500, <<"AZURE_STORAGE_CONNECTION_STRING",
                         " environment variable not set">>)
ContainerMissing ==
    HTTPException(500, <<"AZURE_STORAGE_CONTAINER",
                         " environment variable not set">>)
JsonMissing(path) ==
    HTTPException(404, <<"JSON file not found at: ", path,
                         ". Please call /show-path first to generate the file.">>)

UploadPreconditionContainerFirst(env, exists) ==
    IF Falsy(env.AZURE_STORAGE_CONTAINER) THEN ContainerMissing
    ELSE IF Falsy(env.AZURE_STORAGE_CONNECTION_STRING) THEN ConnMissing
    ELSE IF ~exists THEN JsonMissing(JsonFileName(env))
    ELSE NoException

\* the checks of upload_data before the upload, in order
UploadPrecondition(env, exists) ==
    IF Falsy(env.AZURE_STORAGE_CONNECTION_STRING) THEN ConnMissing
    ELSE IF Falsy(env.AZURE_STORAGE_CONTAINER) THEN ContainerMissing
    ELSE IF ~exists THEN JsonMissing(JsonFileName(env))
    ELSE NoException

UploadBlobAppend(store, container, name, data) ==
    Append(store, [container |-> container, name |-> name, data |-> data])

\* blob_client.upload_blob(data, overwrite=True)
UploadBlob(store, container, name, data) ==
    Append(SelectSeq(store, LAMBDA o : ~(o.container = container /\ o.name = name)),
           [container |-> container, name |-> name, data |-> data])

\* ------------------------------------------------------------------- state
PathSamples == {Unset(<<>>), Value(<<" ", "a", ";">>)}

ConnSamples == {Unset(""), Value(""), Value("conn")}
ContainerSamples == {Unset(""), Value("cont")}
HostSamples == {Unset(""), Value("PC1")}
StdoutSamples == {<<>>, <<"o">>}

NoFile == [exists |-> FALSE, data |-> <<>>]

\* The snapshot a run of /show-path before the last restart may have left.
EarlierContent == ResponseContent(PathEntries(Value(<<"b">>)), <<>>)
EarlierFile == [exists |-> TRUE, data |-> Serialize(EarlierContent)]

NoLocals ==
    [content |-> NoContent, pos |-> 0, opened |-> FALSE, wrote |-> <<>>,
     stdout |-> <<>>, startLen |-> 0]

\* The record kept of a finished request: the response the client receives
\* (status, detail, body or result) and what the request did on the way.
Entry(ep, w, branch, resp) ==
    [ep |-> ep, w |-> w, branch |-> branch,
     status |-> resp.status, detail |-> resp.detail,
     body |-> NoContent, stdout |-> <<>>,
     opened |-> FALSE, writeFailed |-> FALSE, wrote |-> <<>>,
     startLen |-> loc[w].startLen, left |-> NoFile,
     attempted |-> FALSE, read |-> <<>>,
     result |-> [status |-> "", blob_name |-> "", container |-> ""]]

Ok200 == [status |-> 200, detail |-> <<>>]

\* The process environments: the credential and the container come from the
\* .env file of the shared directory, COMPUTERNAME from the host; PATH is
\* the PATH of the shell that started the process.
EnvironOf(paths, conn, cont, host) ==
    [w \in Workers |->
        [PATH |-> paths[w],
         AZURE_STORAGE_CONNECTION_STRING |-> conn,
         AZURE_STORAGE_CONTAINER |-> cont,
         COMPUTERNAME |-> host]]

\* The initial environments explored: from the configured default (PATH
\* " a;" in both processes, credential, container and COMPUTERNAME set), every
\* PATH assignment, every COMPUTERNAME and every storage configuration, one
\* group departing from the default at a time.
Configured(conn, cont) == conn = Value("conn") /\ cont = Value("cont")
Plain(paths, host) ==
    /\ \A w \in Workers : paths[w] = Value(<<" ", "a", ";">>)
    /\ host = Value("PC1")
Scenario(paths, conn, cont, host) ==
    \/ Configured(conn, cont) /\ host = Value("PC1")
    \/ Configured(conn, cont) /\ Plain(paths, Value("PC1"))
    \/ Plain(paths, host)

Init ==
    /\ \E paths \in [Workers -> PathSamples], conn \in ConnSamples,
          cont \in ContainerSamples, host \in HostSamples :
            /\ Scenario(paths, conn, cont, host)
            /\ environ = EnvironOf(paths, conn, cont, host)
    /\ batExists \in BOOLEAN
    /\ batOutput \in (IF batExists THEN StdoutSamples ELSE {<<>>})
    /\ \E f \in {NoFile, EarlierFile} :
          fs = [n \in FileNames |->
                  IF n = JsonFileName(environ["w1"]) THEN f ELSE NoFile]
    /\ blobs = <<>>
    /\ pc = [w \in Workers |-> "idle"]
    /\ loc = [w \in Workers |-> NoLocals]
    /\ log = <<>>

Active == Cardinality({w \in Workers : pc[w] # "idle"})

\* a request arrives at an idle worker
Accepts(w) == pc[w] = "idle" /\ Len(log) + Active < MaxRequests

Respond(w, entry) ==
    /\ log' = Append(log, entry)
    /\ pc' = [pc EXCEPT ![w] = "idle"]
    /\ loc' = [loc EXCEPT ![w] = NoLocals]

\* -------------------------------------------------------------- /show-path
\* the script is missing: HTTPException(404) is raised inside the try block
ShowPathNoScript(w) ==
    /\ Accepts(w)
    /\ ~batExists
    /\ Respond(w, Entry("show-path", w, "script_missing",
            ShowPathExcept(HTTPException(404,
                <<"Batch file not found at: ", BatFilePath>>))))
    /\ UNCHANGED <<environ, batExists, batOutput, fs, blobs>>

\* subprocess.run raises: the timeout, or cmd.exe cannot be started
ShowPathRunFails(w) ==
    /\ Accepts(w)
    /\ batExists
    /\ \E e \in {OtherException("TimeoutExpired", "timed out after 10 seconds"),
                 OtherException("OSError", "cannot start cmd.exe")} :
          Respond(w, Entry("show-path", w,
                           IF e.type = "TimeoutExpired" THEN "timeout" ELSE "oserror",
                           ShowPathExcept(e)))
    /\ UNCHANGED <<environ, batExists, batOutput, fs, blobs>>

\* the command completes; the snapshot is built from the process's PATH
ShowPathRun(w) ==
    /\ Accepts(w)
    /\ batExists
    /\ LET stdout == batOutput
       IN loc' = [loc EXCEPT ![w] =
                    [content |-> ResponseContent(PathEntries(environ[w].PATH), stdout),
                     pos |-> 0, opened |-> FALSE, wrote |-> <<>>,
                     stdout |-> stdout, startLen |-> Len(log)]]
    /\ pc' = [pc EXCEPT ![w] = "open"]
    /\ UNCHANGED <<environ, batExists, batOutput, fs, blobs, log>>

WriteFailureResponseRaises(content) ==
    [status |-> 500, detail |-> <<"Error executing batch file: ", "write failed">>,
     body |-> NoContent]

\* except Exception as file_error: print a warning, then return the 200
WriteFailureResponse(content) ==
    [status |-> 200, detail |-> <<>>, body |-> content]

\* left: the snapshot file as it is when the response is returned
ShowPathEntry(w, branch, resp, failed, wrote, left) ==
    [Entry("show-path", w, branch, resp) EXCEPT
        !.body = resp.body, !.stdout = loc[w].stdout,
        !.opened = loc[w].opened, !.writeFailed = failed,
        !.wrote = wrote, !.left = left]

\* open(data_file_path, 'w'): creates the file or truncates it to nothing
ShowPathOpen(w) ==
    /\ pc[w] = "open"
    /\ fs' = [fs EXCEPT ![JsonFileName(environ[w])] = [exists |-> TRUE, data |-> <<>>]]
    /\ loc' = [loc EXCEPT ![w].opened = TRUE]
    /\ pc' = [pc EXCEPT ![w] = "write"]
    /\ UNCHANGED <<environ, batExists, batOutput, blobs, log>>

\* open raises (the file or the directory is not writable): swallowed
ShowPathOpenFails(w) ==
    /\ pc[w] = "open"
    /\ Respond(w, ShowPathEntry(w, "ok", WriteFailureResponse(loc[w].content),
                                TRUE, loc[w].wrote, fs[JsonFileName(environ[w])]))
    /\ UNCHANGED <<environ, batExists, batOutput, fs, blobs>>

\* one block of json.dump reaches the file; after the last one the file is
\* closed and the 200 is returned
ShowPathWrite(w) ==
    /\ pc[w] = "write"
    /\ LET name == JsonFileName(environ[w])
           blocks == Serialize(loc[w].content)
           block == blocks[loc[w].pos + 1]
           wrote == Append(loc[w].wrote, block)
       IN /\ fs' = [fs EXCEPT ![name].data = WriteAt(fs[name].data, loc[w].pos, block)]
          /\ IF loc[w].pos + 1 = Len(blocks)
             THEN Respond(w, ShowPathEntry(w, "ok",
                                 [status |-> 200, detail |-> <<>>,
                                  body |-> loc[w].content],
                                 FALSE, wrote, fs'[name]))
             ELSE /\ loc' = [loc EXCEPT ![w].pos = loc[w].pos + 1, ![w].wrote = wrote]
                  /\ UNCHANGED <<pc, log>>
    /\ UNCHANGED <<environ, batExists, batOutput, blobs>>

\* a write raises (the disk is full): the blocks written so far stay in the
\* file, the error is swallowed
ShowPathWriteFails(w) ==
    /\ pc[w] = "write"
    /\ Respond(w, ShowPathEntry(w, "ok", WriteFailureResponse(loc[w].content),
                                TRUE, loc[w].wrote, fs[JsonFileName(environ[w])]))
    /\ UNCHANGED <<environ, batExists, batOutput, fs, blobs>>

\* ------------------------------------------------------------ /upload-data
UploadBranch(e) ==
    IF e = ConnMissing THEN "conn_missing"
    ELSE IF e = ContainerMissing THEN "container_missing"
    ELSE "file_missing"

\* a precondition fails: HTTPException is raised inside the try block
UploadRejected(w) ==
    /\ Accepts(w)
    /\ LET name == JsonFileName(environ[w])
           e == UploadPrecondition(environ[w], fs[name].exists)
       IN /\ e # NoException
          /\ Respond(w, Entry("upload-data", w, UploadBranch(e),
                              UploadExcept(e, name)))
    /\ UNCHANGED <<environ, batExists, batOutput, fs, blobs>>

\* the preconditions hold and the blob client is created
UploadAccepted(w) ==
    /\ Accepts(w)
    /\ UploadPrecondition(environ[w], fs[JsonFileName(environ[w])].exists) = NoException
    /\ pc' = [pc EXCEPT ![w] = "upload"]
    /\ loc' = [loc EXCEPT ![w] = [NoLocals EXCEPT !.startLen = Len(log)]]
    /\ UNCHANGED <<environ, batExists, batOutput, fs, blobs, log>>

UploadEntry(w, branch, resp, data) ==
    [Entry("upload-data", w, branch, resp) EXCEPT !.attempted = TRUE, !.read = data]

\* open(json_file_path, 'rb') and upload_blob(data, overwrite=True) succeed
UploadSend(w) ==
    /\ pc[w] = "upload"
    /\ LET name == JsonFileName(environ[w])
           cont == environ[w].AZURE_STORAGE_CONTAINER.val
           data == fs[name].data
       IN /\ blobs' = UploadBlob(blobs, cont, name, data)
          /\ Respond(w, [UploadEntry(w, "ok", Ok200, data) EXCEPT
                            !.result = [status |-> "success", blob_name |-> name,
                                        container |-> cont]])
    /\ UNCHANGED <<environ, batExists, batOutput, fs>>

\* upload_blob raises AzureError
UploadSendFails(w) ==
    /\ pc[w] = "upload"
    /\ Respond(w, UploadEntry(w, "azure_error",
                    UploadExcept(OtherException("AzureError", "request failed"),
                                 JsonFileName(environ[w])),
                    fs[JsonFileName(environ[w])].data))
    /\ UNCHANGED <<environ, batExists, batOutput, fs, blobs>>

Next ==
    \E w \in Workers :
        \/ ShowPathNoScript(w)
        \/ ShowPathRunFails(w)
        \/ ShowPathRun(w)
        \/ ShowPathOpen(w)
        \/ ShowPathOpenFails(w)
        \/ ShowPathWrite(w)
        \/ ShowPathWriteFails(w)
        \/ UploadRejected(w)
        \/ UploadAccepted(w)
        \/ UploadSend(w)
        \/ UploadSendFails(w)

Spec == Init /\ [][Next]_vars

\* ------------------------------------------------- the extractor on its own
\* The /show-path handler of one worker, run on every PATH value up to
\* MaxPathLen characters (and on an unset PATH).
RECURSIVE Strings(_)
Strings(n) ==
    IF n = 0 THEN {<<>>}
    ELSE Strings(n - 1) \cup
         {Append(s, c) : s \in {t \in Strings(n - 1) : Len(t) = n - 1}, c \in Alphabet}

AllPaths == {Unset(<<>>)} \cup {Value(s) : s \in Strings(MaxPathLen)}

InitPath ==
    /\ \E p \in AllPaths :
          environ = EnvironOf([w \in Workers |-> p], Value("conn"), Value("cont"),
                              Value("PC1"))
    /\ batExists = TRUE
    /\ batOutput \in StdoutSamples
    /\ fs = [n \in FileNames |-> NoFile]
    /\ blobs = <<>>
    /\ pc = [w \in Workers |-> "idle"]
    /\ loc = [w \in Workers |-> NoLocals]
    /\ log = <<>>

NextPath == ShowPathRun("w1") \/ ShowPathOpen("w1") \/ ShowPathWrite("w1")

SpecPath == InitPath /\ [][NextPath]_vars

\* ------------------------------------------------------------------ helpers
Range(s) == {s[i] : i \in DOMAIN s}

Logged == DOMAIN log

IsShow(i) == log[i].ep = "show-path"
IsUpload(i) == log[i].ep = "upload-data"

\* json.load of a file: the file must be one head block, entry blocks and
\* one tail block
Parse(data) ==
    IF /\ Len(data) >= 2
       /\ data[1].k = "head"
       /\ data[Len(data)].k = "tail"
       /\ \A i \in 2..(Len(data) - 1) : data[i].k = "entry"
    THEN [ok |-> TRUE,
          content |->
            [status |-> "success",
             message |-> "PATH environment variable retrieved successfully",
             total_entries |-> data[1].n,
             path_entries |-> [i \in 1..(Len(data) - 2) |-> data[i + 1].s],
             raw_output |-> IF data[Len(data)].n = 1
                            THEN Value(data[Len(data)].s) ELSE Unset(<<>>)]]
    ELSE [ok |-> FALSE, content |-> NoContent]

\* The segments of a PATH string, stated by positions: a segment lies between
\* two neighbouring delimiters (or ends of the string); it counts when it
\* holds a character that is not whitespace, and its entry runs from the
\* first such character to the last.
IsDelim(s, i) == i = 0 \/ i = Len(s) + 1 \/ s[i] = ";"
SegEnd(s, i) == CHOOSE j \in (i + 1)..(Len(s) + 1) :
                    IsDelim(s, j) /\ \A k \in (i + 1)..(j - 1) : ~IsDelim(s, k)
Solid(s, i) == {k \in (i + 1)..(SegEnd(s, i) - 1) : s[k] \notin Whitespace}
SegStarts(s) == {i \in 0..Len(s) : IsDelim(s, i) /\ Solid(s, i) # {}}
Least(S) == CHOOSE x \in S : \A y \in S : x <= y
Greatest(S) == CHOOSE x \in S : \A y \in S : x >= y
Trimmed(s, i) == SubSeq(s, Least(Solid(s, i)), Greatest(Solid(s, i)))
IsSegmentsOf(entries, s) ==
    LET starts == SegStarts(s)
    IN /\ Len(entries) = Cardinality(starts)
       /\ \A i \in starts :
             entries[Cardinality({j \in starts : j < i}) + 1] = Trimmed(s, i)

\* ------------------------------------------------------------------- claims
\* C1: a /show-path request that finds show-path-nointeractive.bat missing
\* is answered with status 404 and a detail naming the script path, and the
\* request neither creates nor writes the snapshot file.
C1_ScriptMissingIs404 ==
    \A i \in Logged :
        (IsShow(i) /\ log[i].branch = "script_missing") =>
            /\ log[i].status = 404
            /\ BatFilePath \in Range(log[i].detail)
            /\ ~log[i].opened /\ log[i].wrote = <<>>

\* C2: an /upload-data request with the credential and the container set
\* but no snapshot file is answered with status 404 and a detail naming the
\* expected file, and attempts no upload.
C2_FileMissingIs404 ==
    \A i \in Logged :
        (IsUpload(i) /\ log[i].branch = "file_missing") =>
            /\ log[i].status = 404
            /\ JsonFileName(environ[log[i].w]) \in Range(log[i].detail)
            /\ ~log[i].attempted

\* C3: an /upload-data request with AZURE_STORAGE_CONNECTION_STRING unset or
\* empty is answered with status 500 and a detail naming that variable (not
\* the container variable, not the file), whatever the container setting
\* and whether or not the file exists, and no upload is ever attempted.
C3_CredentialCheckedFirst ==
    \A w \in Workers :
        Falsy(environ[w].AZURE_STORAGE_CONNECTION_STRING) =>
            /\ pc[w] # "upload"
            /\ blobs = <<>>
            /\ \A i \in Logged :
                  (IsUpload(i) /\ log[i].w = w) =>
                      /\ log[i].status = 500
                      /\ "AZURE_STORAGE_CONNECTION_STRING" \in Range(log[i].detail)
                      /\ "AZURE_STORAGE_CONTAINER" \notin Range(log[i].detail)
                      /\ JsonFileName(environ[w]) \notin Range(log[i].detail)
                      /\ ~log[i].attempted

C3_Witness ==
    \E i \in Logged :
        /\ IsUpload(i)
        /\ Falsy(environ[log[i].w].AZURE_STORAGE_CONNECTION_STRING)
        /\ Falsy(environ[log[i].w].AZURE_STORAGE_CONTAINER)
        /\ fs[JsonFileName(environ[log[i].w])].exists

\* C4 as stated: every /show-path request answered 200 leaves the snapshot
\* file on disk holding that request's snapshot.
C4_EverySuccessLeavesSnapshot ==
    \A i \in Logged :
        (IsShow(i) /\ log[i].status = 200) =>
            /\ log[i].left.exists
            /\ Parse(log[i].left.data).ok
            /\ Parse(log[i].left.data).content = log[i].body

\* C4 amended: every /show-path request answered 200 carries a snapshot with
\* total_entries equal to the length of path_entries, and unless its write
\* failed it has created or truncated the snapshot file and written that
\* complete snapshot into it, so the file exists when the response is sent.
C4_SuccessWritesSnapshot ==
    \A i \in Logged :
        (IsShow(i) /\ log[i].status = 200) =>
            /\ log[i].body.total_entries = Len(log[i].body.path_entries)
            /\ ~log[i].writeFailed =>
                  /\ log[i].opened
                  /\ log[i].left.exists
                  /\ Parse(log[i].wrote).ok
                  /\ Parse(log[i].wrote).content = log[i].body

C4_Witness ==
    \E i \in Logged :
        /\ IsShow(i) /\ log[i].status = 200 /\ ~log[i].writeFailed
        /\ log[i].body.total_entries = 1
        /\ Parse(log[i].left.data).ok
        /\ Parse(log[i].left.data).content = log[i].body

\* C5: for every PATH value, set or unset, the path_entries of /show-path are
\* the delimiter-separated segments that hold a non-whitespace character,
\* each trimmed, in their original order; no entry is empty or has
\* whitespace at either end, and total_entries is their count.
C5_PathEntriesAreSegments ==
    \A w \in Workers :
        LET c == loc[w].content
            s == EnvGet(environ[w].PATH, <<>>)
        IN pc[w] \in {"open", "write"} =>
              /\ IsSegmentsOf(c.path_entries, s)
              /\ c.total_entries = Cardinality(SegStarts(s))
              /\ \A n \in 1..Len(c.path_entries) :
                    /\ c.path_entries[n] # <<>>
                    /\ Head(c.path_entries[n]) \notin Whitespace
                    /\ c.path_entries[n][Len(c.path_entries[n])] \notin Whitespace
                    /\ ";" \notin Range(c.path_entries[n])
              /\ (~environ[w].PATH.set => c.path_entries = <<>>)

C5_Witness ==
    /\ pc["w1"] = "write"
    /\ environ["w1"].PATH = Value(<<"a", " ", ";", "b">>)
    /\ loc["w1"].content.path_entries = << <<"a">>, <<"b">> >>

\* C6: when the write of the snapshot file fails, at open or at any block,
\* the request is still answered 200 with status "success" and the listing
\* of its process's PATH and the command's output.
C6_WriteFailureSwallowed ==
    \A i \in Logged :
        (IsShow(i) /\ log[i].writeFailed) =>
            /\ log[i].status = 200
            /\ log[i].body.status = "success"
            /\ IsSegmentsOf(log[i].body.path_entries,
                            EnvGet(environ[log[i].w].PATH, <<>>))
            /\ log[i].body.total_entries = Len(log[i].body.path_entries)
            /\ log[i].body.raw_output.val = log[i].stdout

C6_Witness ==
    \E i \in Logged :
        /\ IsShow(i) /\ log[i].writeFailed /\ log[i].opened
        /\ log[i].wrote # <<>>
        /\ log[i].body.total_entries = 1

\* C7: two successful /upload-data requests that read the same snapshot
\* file content return the same blob_name and status, and after the last
\* successful upload the container holds exactly one object under that
\* name, whose content is the file content that upload read.
IsUploaded(i) == IsUpload(i) /\ log[i].status = 200

C7_UploadIdempotent ==
    /\ \A i, j \in Logged :
          (i < j /\ IsUploaded(i) /\ IsUploaded(j) /\ log[i].read = log[j].read) =>
              /\ log[i].result.blob_name = log[j].result.blob_name
              /\ log[i].result.status = log[j].result.status
              /\ log[j].result.blob_name = JsonFileName(environ[log[j].w])
    /\ \A j \in Logged :
          (IsUploaded(j) /\ \A k \in Logged : k > j => ~IsUploaded(k)) =>
              LET held == SelectSeq(blobs,
                            LAMBDA o : o.name = log[j].result.blob_name)
              IN /\ Len(held) = 1
                 /\ held[1].data = log[j].read
                 /\ held[1].container = log[j].result.container

C7_Witness ==
    \E i, j \in Logged :
        /\ i < j /\ IsUploaded(i) /\ IsUploaded(j)
        /\ log[i].read = log[j].read
        /\ Parse(log[j].read).ok
        /\ Len(blobs) = 1

\* C8: a /show-path request whose command times out is answered 500 with
\* the timed-out detail and neither creates nor writes the snapshot file;
\* a worker opens or writes the file only with its command completed.
C8_TimeoutIs500 ==
    /\ \A i \in Logged :
          (IsShow(i) /\ log[i].branch = "timeout") =>
              /\ log[i].status = 500
              /\ log[i].detail = <<"Batch file execution timed out">>
              /\ ~log[i].opened /\ log[i].wrote = <<>>
    /\ \A i \in Logged : (IsShow(i) /\ log[i].opened) => log[i].branch = "ok"

C8_Witness ==
    \E i \in Logged :
        /\ IsShow(i) /\ log[i].branch = "timeout"
        /\ fs[JsonFileName(environ[log[i].w])].exists

\* C9: when two /show-path requests overlap and both complete their writes,
\* then once both have finished the snapshot file holds the complete
\* snapshot of the one that finished last.
IsWritten(i) == IsShow(i) /\ log[i].status = 200 /\ log[i].opened /\ ~log[i].writeFailed

C9_LastWriteWins ==
    \A i, j \in Logged :
        (/\ i < j /\ IsWritten(i) /\ IsWritten(j)
         /\ log[i].w # log[j].w
         /\ log[j].startLen < i
         /\ \A k \in Logged : (IsShow(k) /\ log[k].opened) => k \in {i, j}
         /\ \A w \in Workers : pc[w] \notin {"open", "write"}) =>
            fs[JsonFileName(environ[log[j].w])].data = Serialize(log[j].body)

\* C10: every object a successful /upload-data publishes is the complete
\* snapshot written by some /show-path request (one of this run, or the one
\* that left the file found at start), never an empty or partly written file.
C10_UploadsAreComplete ==
    \A n \in DOMAIN blobs :
        \/ blobs[n].data = EarlierFile.data
        \/ \E i \in Logged : IsWritten(i) /\ Serialize(log[i].body) = blobs[n].data

====
